---- MODULE Spec2Model ----
(***************************************************************************)
(* Model of src/cafeteria.py: the beverage decorators, the payment         *)
(* strategies, the order observers and the Pedido aggregate.               *)
(*                                                                         *)
(* Conventions                                                             *)
(*  - every Python object is a record with a field cls naming its class;   *)
(*    isinstance(x, K) is membership of x.cls in the classes of K;         *)
(*  - money is counted in centavos.  Every price of class Precos is a      *)
(*    multiple of 0.50, so the float sums of the source are exact and the  *)
(*    integer sums of the model agree with them;                           *)
(*  - a text that the source strips is a sequence of one-character         *)
(*    strings; other texts are TLA+ strings;                               *)
(*  - a call is recorded in ult: the operation, its target, its argument,  *)
(*    how it ended (res = "ok" or the exception class) and what it         *)
(*    returned.                                                            *)
(***************************************************************************)
EXTENDS Integers, Sequences, FiniteSets, TLC

VARIABLES
    contador,    \* Pedido._contador, the class attribute
    pedidos,     \* the Pedido objects constructed so far, in creation order
    rodada,      \* the atualizar calls the last call made, in order
    bebida,      \* the beverage under composition (decorator workbench)
    receita,     \* how bebida was composed: its base class and the wrappers applied
    estrategia,  \* the payment strategy under test
    ult          \* the last call and its outcome

vars == <<contador, pedidos, rodada, bebida, receita, estrategia, ult>>

\* ------------------------------------------------------------------ bounds

MaxAddons == 3
MaxValor == 6
MaxPedidos == 2
MaxItens == 2
MaxObs == 3

\* ------------------------------------------------------------------ texts

None == [cls |-> "NoneType"]

IsSpace(c) == c = " "

RECURSIVE LStrip(_)
LStrip(s) == IF s # <<>> /\ IsSpace(Head(s)) THEN LStrip(Tail(s)) ELSE s

RECURSIVE RStrip(_)
RStrip(s) ==
    IF s # <<>> /\ IsSpace(s[Len(s)]) THEN RStrip(SubSeq(s, 1, Len(s) - 1)) ELSE s

\* str.strip()
Strip(s) == RStrip(LStrip(s))

\* `not s or not s.strip()`
Blank(s) == s = <<>> \/ Strip(s) = <<>>

\* ------------------------------------------------------------------ Precos

ESPRESSO == 500
CAPPUCCINO == 800
LATTE == 750
LEITE == 150
CHOCOLATE == 200
CHANTILLY == 250

\* ------------------------------------------------------------------ Bebida

ClassesBase == {"Espresso", "Cappuccino", "Latte"}
ClassesDecorator == {"Leite", "Chocolate", "Chantilly"}

\* isinstance(x, Bebida)
IsBebida(x) == x.cls \in ClassesBase \cup ClassesDecorator

\* Espresso(), Cappuccino(), Latte()
NovaBase(c) == [cls |-> c]

\* IngredienteDecorator.__init__, inherited by Leite, Chocolate and Chantilly
IngredienteDecorator_init(c, b) ==
    IF ~IsBebida(b)
    THEN [res |-> "TypeError"]
    ELSE [res |-> "ok", obj |-> [cls |-> c, bebida |-> b]]

RECURSIVE preco(_)
RECURSIVE descricao(_)

\* Variant of Leite_preco that forgets the increment
Leite_preco_semExtra(b) == preco(b.bebida)

Leite_preco(b) == preco(b.bebida) + LEITE

Chocolate_preco(b) == preco(b.bebida) + CHOCOLATE

Chantilly_preco(b) == preco(b.bebida) + CHANTILLY

Leite_descricao(b) == descricao(b.bebida) \o " + Leite"

Chocolate_descricao(b) == descricao(b.bebida) \o " + Chocolate"

Chantilly_descricao(b) == descricao(b.bebida) \o " + Chantilly"

\* b.preco(), dispatched on the class of b
preco(b) ==
    CASE b.cls = "Espresso" -> ESPRESSO
      [] b.cls = "Cappuccino" -> CAPPUCCINO
      [] b.cls = "Latte" -> LATTE
      [] b.cls = "Leite" -> Leite_preco(b)
      [] b.cls = "Chocolate" -> Chocolate_preco(b)
      [] b.cls = "Chantilly" -> Chantilly_preco(b)

\* b.descricao(), dispatched on the class of b
descricao(b) ==
    CASE b.cls = "Espresso" -> "Espresso"
      [] b.cls = "Cappuccino" -> "Cappuccino"
      [] b.cls = "Latte" -> "Latte"
      [] b.cls = "Leite" -> Leite_descricao(b)
      [] b.cls = "Chocolate" -> Chocolate_descricao(b)
      [] b.cls = "Chantilly" -> Chantilly_descricao(b)

\* ------------------------------------------------------------------ PagamentoStrategy

ClassesPagamento == {"PagamentoCartao", "PagamentoPix", "PagamentoDinheiro"}

\* isinstance(x, PagamentoStrategy)
IsPagamento(x) == x.cls \in ClassesPagamento

PagamentoCartao_init(numero_cartao) ==
    IF numero_cartao = "" \/ Len(numero_cartao) < 4
    THEN [res |-> "ValueError"]
    ELSE [res |-> "ok", obj |-> [cls |-> "PagamentoCartao", numero |-> numero_cartao]]

PagamentoPix_init(chave_pix) ==
    IF Blank(chave_pix)
    THEN [res |-> "ValueError"]
    ELSE [res |-> "ok", obj |-> [cls |-> "PagamentoPix", chave |-> Strip(chave_pix)]]

PagamentoDinheiro_init(valor_entregue) ==
    IF valor_entregue <= 0
    THEN [res |-> "ValueError"]
    ELSE [res |-> "ok",
          obj |-> [cls |-> "PagamentoDinheiro", valor_entregue |-> valor_entregue]]

\* The lines a pagar call prints, as <<kind, amount>> pairs.
PagamentoCartao_pagar(e, valor) ==
    IF valor <= 0
    THEN [res |-> "ValueError"]
    ELSE [res |-> "ok", ret |-> TRUE, log |-> << <<"Processando", valor>> >>]

PagamentoPix_pagar(e, valor) ==
    IF valor <= 0
    THEN [res |-> "ValueError"]
    ELSE [res |-> "ok", ret |-> TRUE, log |-> << <<"PIX", valor>>, <<"QR Code", 0>> >>]

\* Variant of PagamentoDinheiro_pagar that compares with > instead of >=
PagamentoDinheiro_pagar_maiorEstrito(e, valor) ==
    IF valor <= 0
    THEN [res |-> "ValueError"]
    ELSE IF e.valor_entregue > valor
         THEN [res |-> "ok", ret |-> TRUE,
               log |-> << <<"Pagamento", e.valor_entregue>>,
                          <<"Troco", e.valor_entregue - valor>> >>]
         ELSE [res |-> "ok", ret |-> FALSE,
               log |-> << <<"Faltam", valor - e.valor_entregue>> >>]

PagamentoDinheiro_pagar(e, valor) ==
    IF valor <= 0
    THEN [res |-> "ValueError"]
    ELSE IF e.valor_entregue >= valor
         THEN LET troco == e.valor_entregue - valor
              IN  [res |-> "ok", ret |-> TRUE,
                   log |-> << <<"Pagamento", e.valor_entregue>> >>
                           \o (IF troco > 0 THEN << <<"Troco", troco>> >> ELSE <<>>)]
         ELSE [res |-> "ok", ret |-> FALSE,
               log |-> << <<"Faltam", valor - e.valor_entregue>> >>]

\* e.pagar(valor), dispatched on the class of e
pagar(e, valor) ==
    CASE e.cls = "PagamentoCartao" -> PagamentoCartao_pagar(e, valor)
      [] e.cls = "PagamentoPix" -> PagamentoPix_pagar(e, valor)
      [] e.cls = "PagamentoDinheiro" -> PagamentoDinheiro_pagar(e, valor)

\* ------------------------------------------------------------------ StatusPedido

StatusPedido(n) ==
    [cls |-> "StatusPedido", name |-> n,
     value |-> CASE n = "RECEBIDO" -> "Recebido"
                 [] n = "PREPARANDO" -> "Preparando"
                 [] n = "PRONTO" -> "Pronto"
                 [] n = "ENTREGUE" -> "Entregue"]

RECEBIDO == StatusPedido("RECEBIDO")
PREPARANDO == StatusPedido("PREPARANDO")
PRONTO == StatusPedido("PRONTO")
ENTREGUE == StatusPedido("ENTREGUE")

Membros == {RECEBIDO, PREPARANDO, PRONTO, ENTREGUE}

\* isinstance(x, StatusPedido)
IsStatusPedido(x) == x.cls = "StatusPedido"

\* ------------------------------------------------------------------ ObservadorPedido

\* An observer is [cls, oid, attrs]: oid is the identity of the instance and
\* attrs its __dict__, as a sequence of <<attribute, value>> pairs.
\* ObservadorFalho stands for a subclass of ObservadorPedido written by a
\* caller, whose atualizar raises when it reads the status PRONTO.
ClassesObservador ==
    {"NotificadorCliente", "PainelPedidos", "SistemaMetricas", "ObservadorFalho"}

\* isinstance(x, ObservadorPedido)
IsObservador(x) == x.cls \in ClassesObservador

NotificadorCliente_init(oid, nome_cliente) ==
    IF Blank(nome_cliente)
    THEN [res |-> "ValueError"]
    ELSE [res |-> "ok",
          obj |-> [cls |-> "NotificadorCliente", oid |-> oid,
                   attrs |-> << <<"_nome", Strip(nome_cliente)>> >>]]

\* PainelPedidos(), SistemaMetricas() and the caller's subclass: no attributes
NovoObservador(c, oid) == [cls |-> c, oid |-> oid, attrs |-> <<>>]

\* ObservadorPedido.__eq__
ObservadorPedido_eq(self, other) ==
    IF other.cls # self.cls THEN FALSE ELSE self.attrs = other.attrs

\* `x in lista` of a Python list: identity, then ==
Contains(lista, x) ==
    \E k \in 1..Len(lista) :
        lista[k].oid = x.oid \/ ObservadorPedido_eq(lista[k], x)

\* lista.remove(x): drops the first element equal to x
RECURSIVE Remove(_, _)
Remove(lista, x) ==
    IF lista = <<>> THEN <<>>
    ELSE IF Head(lista).oid = x.oid \/ ObservadorPedido_eq(Head(lista), x)
         THEN Tail(lista)
         ELSE <<Head(lista)>> \o Remove(Tail(lista), x)

NotificadorCliente_atualizar(o, pedido) ==
    IF pedido.status = PRONTO
    THEN [res |-> "ok", saida |-> << <<"SMS", o.attrs[1][2], pedido.id, "PRONTO">> >>]
    ELSE IF pedido.status = PREPARANDO
         THEN [res |-> "ok",
               saida |-> << <<"SMS", o.attrs[1][2], pedido.id, "preparado">> >>]
         ELSE [res |-> "ok", saida |-> <<>>]

PainelPedidos_atualizar(o, pedido) ==
    [res |-> "ok", saida |-> << <<"Painel", pedido.id, pedido.status.value>> >>]

SistemaMetricas_atualizar(o, pedido) ==
    IF pedido.status = ENTREGUE
    THEN [res |-> "ok", saida |-> << <<"Metrica", pedido.id>> >>]
    ELSE [res |-> "ok", saida |-> <<>>]

ObservadorFalho_atualizar(o, pedido) ==
    IF pedido.status = PRONTO
    THEN [res |-> "RuntimeError", saida |-> <<>>]
    ELSE [res |-> "ok", saida |-> <<>>]

\* o.atualizar(pedido), dispatched on the class of o
atualizar(o, pedido) ==
    CASE o.cls = "NotificadorCliente" -> NotificadorCliente_atualizar(o, pedido)
      [] o.cls = "PainelPedidos" -> PainelPedidos_atualizar(o, pedido)
      [] o.cls = "SistemaMetricas" -> SistemaMetricas_atualizar(o, pedido)
      [] o.cls = "ObservadorFalho" -> ObservadorFalho_atualizar(o, pedido)

\* ------------------------------------------------------------------ Pedido

\* Variant of Pedido_init that counts before it validates the name
Pedido_init_contaAntes(c, cliente) ==
    IF Blank(cliente)
    THEN [res |-> "ValueError", contador |-> c + 1]
    ELSE [res |-> "ok", contador |-> c + 1,
          obj |-> [id |-> c + 1, cliente |-> Strip(cliente), itens |-> <<>>,
                   status |-> RECEBIDO, observers |-> <<>>, pagamento |-> None]]

\* Pedido.__init__ with the class attribute _contador at c
Pedido_init(c, cliente) ==
    IF Blank(cliente)
    THEN [res |-> "ValueError", contador |-> c]
    ELSE [res |-> "ok", contador |-> c + 1,
          obj |-> [id |-> c + 1, cliente |-> Strip(cliente), itens |-> <<>>,
                   status |-> RECEBIDO, observers |-> <<>>, pagamento |-> None]]

\* One atualizar call as the log keeps it: who was called, what it read of the
\* order, how the call ended and what it printed.
Chamada(o, p, r) ==
    [obs |-> o, id |-> p.id, status |-> p.status, res |-> r.res, saida |-> r.saida]

\* Variant of NotificarDe that goes on to the next observer after an exception
RECURSIVE NotificarDe_isolado(_, _, _)
NotificarDe_isolado(p, k, feitas) ==
    IF k > Len(p.observers)
    THEN [res |-> "ok", chamadas |-> feitas]
    ELSE LET o == p.observers[k]
             r == atualizar(o, p)
         IN  NotificarDe_isolado(p, k + 1, Append(feitas, Chamada(o, p, r)))

\* The for loop of Pedido._notificar from position k on, feitas being the calls
\* made so far: an exception leaves the loop.
RECURSIVE NotificarDe(_, _, _)
NotificarDe(p, k, feitas) ==
    IF k > Len(p.observers)
    THEN [res |-> "ok", chamadas |-> feitas]
    ELSE LET o == p.observers[k]
             r == atualizar(o, p)
         IN  IF r.res # "ok"
             THEN [res |-> r.res, chamadas |-> Append(feitas, Chamada(o, p, r))]
             ELSE NotificarDe(p, k + 1, Append(feitas, Chamada(o, p, r)))

Pedido_notificar(p) == NotificarDe(p, 1, <<>>)

\* Variant of Pedido_status_set that notifies before it assigns
Pedido_status_set_notificaAntes(p, novo_status) ==
    IF ~IsStatusPedido(novo_status)
    THEN [res |-> "TypeError", p |-> p, chamadas |-> <<>>]
    ELSE LET n == Pedido_notificar(p)
         IN  [res |-> n.res, p |-> [p EXCEPT !.status = novo_status],
              chamadas |-> n.chamadas]

\* Variant of Pedido_status_set without the isinstance check
Pedido_status_set_semValidar(p, novo_status) ==
    LET q == [p EXCEPT !.status = novo_status]
        n == Pedido_notificar(q)
    IN  [res |-> n.res, p |-> q, chamadas |-> n.chamadas]

\* The setter of Pedido.status
Pedido_status_set(p, novo_status) ==
    IF ~IsStatusPedido(novo_status)
    THEN [res |-> "TypeError", p |-> p, chamadas |-> <<>>]
    ELSE LET q == [p EXCEPT !.status = novo_status]
             n == Pedido_notificar(q)
         IN  [res |-> n.res, p |-> q, chamadas |-> n.chamadas]

\* Variant of Pedido_adicionar_observer that looks for the same instance only
Pedido_adicionar_observer_porIdentidade(p, observer) ==
    IF ~IsObservador(observer)
    THEN [res |-> "TypeError", p |-> p]
    ELSE IF \A k \in 1..Len(p.observers) : p.observers[k].oid # observer.oid
         THEN [res |-> "ok", p |-> [p EXCEPT !.observers = Append(@, observer)]]
         ELSE [res |-> "ok", p |-> p]

Pedido_adicionar_observer(p, observer) ==
    IF ~IsObservador(observer)
    THEN [res |-> "TypeError", p |-> p]
    ELSE IF ~Contains(p.observers, observer)
         THEN [res |-> "ok", p |-> [p EXCEPT !.observers = Append(@, observer)]]
         ELSE [res |-> "ok", p |-> p]

Pedido_remover_observer(p, observer) ==
    IF Contains(p.observers, observer)
    THEN [res |-> "ok", p |-> [p EXCEPT !.observers = Remove(@, observer)]]
    ELSE [res |-> "ok", p |-> p]

\* Variant of Pedido_adicionar_item that keeps one of each beverage
Pedido_adicionar_item_semRepetidos(p, b) ==
    IF ~IsBebida(b)
    THEN [res |-> "TypeError", p |-> p]
    ELSE IF \E k \in 1..Len(p.itens) : p.itens[k] = b
         THEN [res |-> "ok", p |-> p]
         ELSE [res |-> "ok", p |-> [p EXCEPT !.itens = Append(@, b)]]

Pedido_adicionar_item(p, b) ==
    IF ~IsBebida(b)
    THEN [res |-> "TypeError", p |-> p]
    ELSE [res |-> "ok", p |-> [p EXCEPT !.itens = Append(@, b)]]

\* sum(item.preco() for item in itens)
RECURSIVE Soma(_)
Soma(itens) == IF itens = <<>> THEN 0 ELSE preco(Head(itens)) + Soma(Tail(itens))

Pedido_total(p) == Soma(p.itens)

Pedido_definir_pagamento(p, e) ==
    IF ~IsPagamento(e)
    THEN [res |-> "TypeError", p |-> p]
    ELSE [res |-> "ok", p |-> [p EXCEPT !.pagamento = e]]

\* Variant of Pedido_processar_pagamento without the check for an empty order
Pedido_processar_pagamento_semItens(p) ==
    IF p.pagamento = None
    THEN [res |-> "RuntimeError", msg |-> "Nenhuma forma de pagamento definida!",
          p |-> p, pagar |-> <<>>, chamadas |-> <<>>]
    ELSE LET r == pagar(p.pagamento, Pedido_total(p))
         IN  IF r.res = "ok"
             THEN [res |-> "ok", ret |-> r.ret, log |-> r.log, p |-> p,
                   pagar |-> <<Pedido_total(p)>>, chamadas |-> <<>>]
             ELSE [res |-> r.res, p |-> p,
                   pagar |-> <<Pedido_total(p)>>, chamadas |-> <<>>]

\* Variant of Pedido_processar_pagamento that moves a paid order to PREPARANDO
Pedido_processar_pagamento_avancaStatus(p) ==
    IF p.pagamento = None
    THEN [res |-> "RuntimeError", msg |-> "Nenhuma forma de pagamento definida!",
          p |-> p, pagar |-> <<>>, chamadas |-> <<>>]
    ELSE IF p.itens = <<>>
         THEN [res |-> "RuntimeError", msg |-> "Pedido vazio!",
               p |-> p, pagar |-> <<>>, chamadas |-> <<>>]
         ELSE LET r == pagar(p.pagamento, Pedido_total(p))
                  w == Pedido_status_set(p, PREPARANDO)
              IN  IF r.res = "ok" /\ r.ret
                  THEN [res |-> w.res, ret |-> r.ret, log |-> r.log, p |-> w.p,
                        pagar |-> <<Pedido_total(p)>>, chamadas |-> w.chamadas]
                  ELSE IF r.res = "ok"
                       THEN [res |-> "ok", ret |-> r.ret, log |-> r.log, p |-> p,
                             pagar |-> <<Pedido_total(p)>>, chamadas |-> <<>>]
                       ELSE [res |-> r.res, p |-> p,
                             pagar |-> <<Pedido_total(p)>>, chamadas |-> <<>>]

\* pagar lists the amounts handed to the strategy's pagar, chamadas the
\* atualizar calls made.
Pedido_processar_pagamento(p) ==
    IF p.pagamento = None
    THEN [res |-> "RuntimeError", msg |-> "Nenhuma forma de pagamento definida!",
          p |-> p, pagar |-> <<>>, chamadas |-> <<>>]
    ELSE IF p.itens = <<>>
         THEN [res |-> "RuntimeError", msg |-> "Pedido vazio!",
               p |-> p, pagar |-> <<>>, chamadas |-> <<>>]
         ELSE LET r == pagar(p.pagamento, Pedido_total(p))
              IN  IF r.res = "ok"
                  THEN [res |-> "ok", ret |-> r.ret, log |-> r.log, p |-> p,
                        pagar |-> <<Pedido_total(p)>>, chamadas |-> <<>>]
                  ELSE [res |-> r.res, p |-> p,
                        pagar |-> <<Pedido_total(p)>>, chamadas |-> <<>>]

\* ------------------------------------------------------------------ inputs

\* A value that is an instance of none of the program's classes
Objeto == [cls |-> "object", oid |-> 0, attrs |-> <<>>]

\* The customer names and PIX keys tried: empty, blank, plain and padded
Textos == {<<>>, <<" ">>, <<"A", "n", "a">>, <<" ", "A", "n", "a", " ">>}

Numeros == {"", "123", "1234", "12345678"}

Valores == {250 * k : k \in -1..MaxValor}

Resultados(S) == {r.obj : r \in {x \in S : x.res = "ok"}}

\* The observers a caller holds: two instances of NotificadorCliente that are
\* equal, one of each other class.
Observadores ==
    Resultados({NotificadorCliente_init(1, <<" ", "A", "n", "a", " ">>),
                NotificadorCliente_init(2, <<"A", "n", "a">>)})
    \cup {NovoObservador("PainelPedidos", 3), NovoObservador("SistemaMetricas", 4),
          NovoObservador("ObservadorFalho", 5)}

\* Espresso(), and Chocolate(Leite(Latte())) as main() composes it
Bebidas ==
    {NovaBase("Espresso"),
     IngredienteDecorator_init("Chocolate",
         IngredienteDecorator_init("Leite", NovaBase("Latte")).obj).obj}

Estrategias ==
    Resultados({PagamentoPix_init(<<"A", "n", "a">>), PagamentoCartao_init("1234"),
                PagamentoDinheiro_init(1000)})

\* What a caller may assign to Pedido.status: the members, and a str
Atribuiveis == Membros \cup {[cls |-> "str", value |-> "Pronto"]}

\* ------------------------------------------------------------------ actions: Bebida

\* Espresso(), Cappuccino() or Latte(): a new composition starts
CriarBase(c) ==
    /\ bebida' = NovaBase(c)
    /\ receita' = [base |-> c, extras |-> <<>>]
    /\ ult' = [op |-> c, res |-> "ok"]
    /\ UNCHANGED <<contador, pedidos, rodada, estrategia>>

\* Leite(x), Chocolate(x) or Chantilly(x), the result replacing bebida
Envolver(c, x) ==
    /\ Len(receita.extras) < MaxAddons
    /\ LET r == IngredienteDecorator_init(c, x)
       IN  /\ bebida' = IF r.res = "ok" THEN r.obj ELSE bebida
           /\ receita' = IF r.res = "ok"
                         THEN [receita EXCEPT !.extras = Append(@, c)]
                         ELSE receita
           /\ ult' = [op |-> c, res |-> r.res]
    /\ UNCHANGED <<contador, pedidos, rodada, estrategia>>

\* ------------------------------------------------------------------ actions: PagamentoStrategy

NovoCartao(numero_cartao) ==
    /\ LET r == PagamentoCartao_init(numero_cartao)
       IN  /\ estrategia' = IF r.res = "ok" THEN r.obj ELSE estrategia
           /\ ult' = [op |-> "PagamentoCartao", arg |-> numero_cartao, res |-> r.res]
    /\ UNCHANGED <<contador, pedidos, rodada, bebida, receita>>

NovoPix(chave_pix) ==
    /\ LET r == PagamentoPix_init(chave_pix)
       IN  /\ estrategia' = IF r.res = "ok" THEN r.obj ELSE estrategia
           /\ ult' = [op |-> "PagamentoPix", arg |-> chave_pix, res |-> r.res]
    /\ UNCHANGED <<contador, pedidos, rodada, bebida, receita>>

NovoDinheiro(valor_entregue) ==
    /\ LET r == PagamentoDinheiro_init(valor_entregue)
       IN  /\ estrategia' = IF r.res = "ok" THEN r.obj ELSE estrategia
           /\ ult' = [op |-> "PagamentoDinheiro", arg |-> valor_entregue, res |-> r.res]
    /\ UNCHANGED <<contador, pedidos, rodada, bebida, receita>>

\* estrategia.pagar(valor), called directly
Pagar(valor) ==
    /\ estrategia # None
    /\ LET r == pagar(estrategia, valor)
       IN  ult' = IF r.res = "ok"
                  THEN [op |-> "pagar", arg |-> valor, res |-> "ok",
                        ret |-> r.ret, log |-> r.log]
                  ELSE [op |-> "pagar", arg |-> valor, res |-> r.res]
    /\ UNCHANGED <<contador, pedidos, rodada, bebida, receita, estrategia>>

\* ------------------------------------------------------------------ actions: Pedido

\* Pedido(cliente)
NovoPedido(cliente) ==
    /\ Len(pedidos) < MaxPedidos
    /\ LET r == Pedido_init(contador, cliente)
       IN  /\ contador' = r.contador
           /\ pedidos' = IF r.res = "ok" THEN Append(pedidos, r.obj) ELSE pedidos
           /\ ult' = [op |-> "Pedido", alvo |-> 0, arg |-> cliente, res |-> r.res]
    /\ rodada' = <<>>
    /\ UNCHANGED <<bebida, receita, estrategia>>

\* pedidos[i].status = v
EscreverStatus(i, v) ==
    /\ LET r == Pedido_status_set(pedidos[i], v)
       IN  /\ pedidos' = [pedidos EXCEPT ![i] = r.p]
           /\ rodada' = r.chamadas
           /\ ult' = [op |-> "status", alvo |-> i, arg |-> v, res |-> r.res]
    /\ UNCHANGED <<contador, bebida, receita, estrategia>>

AdicionarObserver(i, o) ==
    /\ LET r == Pedido_adicionar_observer(pedidos[i], o)
       IN  /\ Len(r.p.observers) <= MaxObs
           /\ pedidos' = [pedidos EXCEPT ![i] = r.p]
           /\ ult' = [op |-> "adicionar_observer", alvo |-> i, arg |-> o, res |-> r.res]
    /\ rodada' = <<>>
    /\ UNCHANGED <<contador, bebida, receita, estrategia>>

RemoverObserver(i, o) ==
    /\ LET r == Pedido_remover_observer(pedidos[i], o)
       IN  /\ pedidos' = [pedidos EXCEPT ![i] = r.p]
           /\ ult' = [op |-> "remover_observer", alvo |-> i, arg |-> o, res |-> r.res]
    /\ rodada' = <<>>
    /\ UNCHANGED <<contador, bebida, receita, estrategia>>

AdicionarItem(i, b) ==
    /\ LET r == Pedido_adicionar_item(pedidos[i], b)
       IN  /\ Len(r.p.itens) <= MaxItens
           /\ pedidos' = [pedidos EXCEPT ![i] = r.p]
           /\ ult' = [op |-> "adicionar_item", alvo |-> i, arg |-> b, res |-> r.res]
    /\ rodada' = <<>>
    /\ UNCHANGED <<contador, bebida, receita, estrategia>>

DefinirPagamento(i, e) ==
    /\ LET r == Pedido_definir_pagamento(pedidos[i], e)
       IN  /\ pedidos' = [pedidos EXCEPT ![i] = r.p]
           /\ ult' = [op |-> "definir_pagamento", alvo |-> i, arg |-> e, res |-> r.res]
    /\ rodada' = <<>>
    /\ UNCHANGED <<contador, bebida, receita, estrategia>>

ProcessarPagamento(i) ==
    /\ LET r == Pedido_processar_pagamento(pedidos[i])
       IN  /\ pedidos' = [pedidos EXCEPT ![i] = r.p]
           /\ rodada' = r.chamadas
           /\ ult' = IF r.res = "ok"
                     THEN [op |-> "processar_pagamento", alvo |-> i, res |-> "ok",
                           ret |-> r.ret, log |-> r.log, pagar |-> r.pagar]
                     ELSE [op |-> "processar_pagamento", alvo |-> i, res |-> r.res,
                           pagar |-> r.pagar]
    /\ UNCHANGED <<contador, bebida, receita, estrategia>>

\* ------------------------------------------------------------------ specifications

\* The state of the process before any call
Init ==
    /\ contador = 0
    /\ pedidos = <<>>
    /\ rodada = <<>>
    /\ bebida = None
    /\ receita = [base |-> "", extras |-> <<>>]
    /\ estrategia = None
    /\ ult = [op |-> "", res |-> "ok"]

\* One order and every operation on it
Next ==
    \/ \E cliente \in Textos : pedidos = <<>> /\ NovoPedido(cliente)
    \/ \E i \in 1..Len(pedidos) : \E v \in Atribuiveis : EscreverStatus(i, v)
    \/ \E i \in 1..Len(pedidos) : \E o \in Observadores \cup {Objeto} :
          AdicionarObserver(i, o)
    \/ \E i \in 1..Len(pedidos) : \E o \in Observadores \cup {Objeto} :
          RemoverObserver(i, o)
    \/ \E i \in 1..Len(pedidos) : \E b \in Bebidas \cup {Objeto} : AdicionarItem(i, b)
    \/ \E i \in 1..Len(pedidos) : \E e \in Estrategias \cup {Objeto} :
          DefinirPagamento(i, e)
    \/ \E i \in 1..Len(pedidos) : ProcessarPagamento(i)

Spec == Init /\ [][Next]_vars

\* Several orders, each with one observer, one beverage and one strategy to use
NextContador ==
    \/ \E cliente \in Textos : NovoPedido(cliente)
    \/ \E i \in 1..Len(pedidos) : \E v \in {PRONTO, [cls |-> "str", value |-> "Pronto"]} :
          EscreverStatus(i, v)
    \/ \E i \in 1..Len(pedidos) : \E o \in {NovoObservador("PainelPedidos", 3)} :
          Len(pedidos[i].observers) < 1 /\ AdicionarObserver(i, o)
    \/ \E i \in 1..Len(pedidos) : \E o \in {NovoObservador("PainelPedidos", 3)} :
          RemoverObserver(i, o)
    \/ \E i \in 1..Len(pedidos) : \E b \in {NovaBase("Espresso"), Objeto} :
          Len(pedidos[i].itens) < 1 /\ AdicionarItem(i, b)
    \/ \E i \in 1..Len(pedidos) : \E e \in Resultados({PagamentoDinheiro_init(1000)}) :
          DefinirPagamento(i, e)
    \/ \E i \in 1..Len(pedidos) : ProcessarPagamento(i)

SpecContador == Init /\ [][NextContador]_vars

\* The decorators over every base
NextBebida ==
    \/ \E c \in ClassesBase : CriarBase(c)
    \/ \E c \in ClassesDecorator : \E x \in {bebida, Objeto} : Envolver(c, x)

SpecBebida == Init /\ [][NextBebida]_vars

\* The strategies called directly
NextPagar ==
    \/ \E numero \in Numeros : NovoCartao(numero)
    \/ \E chave \in Textos : NovoPix(chave)
    \/ \E valor \in Valores : NovoDinheiro(valor)
    \/ \E valor \in Valores : Pagar(valor)

SpecPagar == Init /\ [][NextPagar]_vars

\* ------------------------------------------------------------------ properties

\* The price list of class Precos and the suffixes of the decorators, by class
PrecoDe(c) ==
    CASE c = "Espresso" -> ESPRESSO
      [] c = "Cappuccino" -> CAPPUCCINO
      [] c = "Latte" -> LATTE
      [] c = "Leite" -> LEITE
      [] c = "Chocolate" -> CHOCOLATE
      [] c = "Chantilly" -> CHANTILLY

RECURSIVE SomaExtras(_)
SomaExtras(cs) == IF cs = <<>> THEN 0 ELSE PrecoDe(Head(cs)) + SomaExtras(Tail(cs))

RECURSIVE Sufixos(_)
Sufixos(cs) == IF cs = <<>> THEN "" ELSE (" + " \o Head(cs)) \o Sufixos(Tail(cs))

\* C8: for a base beverage wrapped by any sequence of add-ons, preco() of the
\* outermost item is the base price plus the increments of all the wrappers, and
\* descricao() is the base description followed by each wrapper's suffix in the
\* order the wrappers were applied.
C8_PrecoDescricaoCumulativos ==
    bebida # None =>
        /\ preco(bebida) = PrecoDe(receita.base) + SomaExtras(receita.extras)
        /\ descricao(bebida) = receita.base \o Sufixos(receita.extras)

C8_Witness ==
    /\ receita = [base |-> "Latte", extras |-> <<"Leite", "Chocolate", "Leite">>]
    /\ preco(bebida) = 1250
    /\ descricao(bebida) = "Latte + Leite + Chocolate + Leite"

\* C5: for an amount > 0, PagamentoDinheiro.pagar returns true when the amount
\* tendered covers it and false, without raising, when it does not, and the
\* card and PIX strategies return true; for an amount <= 0 every strategy
\* raises ValueError.
C5_PagarPorEstrategia ==
    ult.op = "pagar" =>
        IF ult.arg <= 0
        THEN ult.res = "ValueError"
        ELSE /\ ult.res = "ok"
             /\ ult.ret = IF estrategia.cls = "PagamentoDinheiro"
                          THEN estrategia.valor_entregue >= ult.arg
                          ELSE TRUE

C5_Witness ==
    /\ ult.op = "pagar"
    /\ estrategia = [cls |-> "PagamentoDinheiro", valor_entregue |-> 500]
    /\ ult.arg = 750
    /\ ult.res = "ok"
    /\ ult.ret = FALSE

\* C7: the identifiers of the orders created are strictly increasing in creation
\* order (so pairwise distinct), the first is 1, whatever constructions were
\* rejected in between, and no operation changes the identifier of an order.
C7_IdsCrescentes ==
    /\ [](/\ pedidos # <<>> => pedidos[1].id = 1
          /\ \A i, j \in 1..Len(pedidos) : i < j => pedidos[i].id < pedidos[j].id)
    /\ [][\A i \in 1..Len(pedidos) : pedidos'[i].id = pedidos[i].id]_vars

C7_Witness ==
    /\ Len(pedidos) >= 2
    /\ pedidos[2].id = 2
    /\ pedidos[1].itens # <<>>
    /\ ult.op = "status" /\ ult.alvo = 1 /\ ult.res = "ok"

\* The order a call was made on, after the call
Alvo == pedidos[ult.alvo]

\* A status write of a member of StatusPedido has just been made
EscritaDeMembro == ult.op = "status" /\ IsStatusPedido(ult.arg)

\* The positions of Alvo's observer list whose atualizar raises on Alvo
Falham == {k \in 1..Len(Alvo.observers) : atualizar(Alvo.observers[k], Alvo).res # "ok"}

\* How many calls of the round went to an observer equal to o
Notificacoes(o) ==
    Cardinality({j \in 1..Len(rodada) : ObservadorPedido_eq(rodada[j].obs, o)})

\* C1 as stated: every write of a member of StatusPedido assigns the status and
\* then calls atualizar on every attached observer, in attachment order, each
\* exactly once, each seeing the new status.
C1_TodosNotificados ==
    EscritaDeMembro =>
        /\ Alvo.status = ult.arg
        /\ Len(rodada) = Len(Alvo.observers)
        /\ \A k \in 1..Len(rodada) :
              /\ rodada[k].obs = Alvo.observers[k]
              /\ rodada[k].status = ult.arg
              /\ rodada[k].id = Alvo.id

\* C1 amended: every write of a member of StatusPedido, whatever the previous
\* status, assigns the status and then calls atualizar on the attached observers
\* in attachment order, each at most once and each seeing the new status; all of
\* them are called, each exactly once, unless an atualizar raises, which ends
\* the round.
C1_NotificadosEmOrdem ==
    EscritaDeMembro =>
        /\ Alvo.status = ult.arg
        /\ Len(rodada) <= Len(Alvo.observers)
        /\ \A k \in 1..Len(rodada) :
              /\ rodada[k].obs = Alvo.observers[k]
              /\ rodada[k].status = ult.arg
              /\ rodada[k].id = Alvo.id
        /\ Len(rodada) < Len(Alvo.observers) => ult.res # "ok"
        /\ ult.res = "ok" => \A k \in 1..Len(rodada) : rodada[k].res = "ok"

\* A write of the status the order already had, to three observers
C1_Witness ==
    /\ EscritaDeMembro
    /\ ult.res = "ok"
    /\ ult.arg = ENTREGUE
    /\ Len(Alvo.observers) = 3
    /\ Len(rodada) = 3
    /\ rodada[1].obs.cls = "SistemaMetricas"
    /\ rodada[2].obs.cls = "ObservadorFalho"
    /\ rodada[3].obs.cls = "NotificadorCliente"

\* C10: when the k-th observer's atualizar raises during a status write, the
\* observers before it have each been called exactly once, those after it are
\* not called, the exception reaches the caller of the write, and the status is
\* the newly written value.
C10_FalhaInterrompeRodada ==
    (EscritaDeMembro /\ Falham # {}) =>
        LET k == CHOOSE x \in Falham : \A y \in Falham : x <= y
        IN  /\ Len(rodada) = k
            /\ \A j \in 1..k : rodada[j].obs = Alvo.observers[j]
            /\ \A j \in 1..(k - 1) : rodada[j].res = "ok"
            /\ rodada[k].res = "RuntimeError"
            /\ ult.res = "RuntimeError"
            /\ Alvo.status = ult.arg

C10_Witness ==
    /\ EscritaDeMembro
    /\ ult.res = "RuntimeError"
    /\ Alvo.status = PRONTO
    /\ Len(Alvo.observers) = 3
    /\ Alvo.observers[2].cls = "ObservadorFalho"
    /\ Len(rodada) = 2

\* No two observers of an order are equal
SemDuplicatas ==
    \A i \in 1..Len(pedidos) :
        \A a, b \in 1..Len(pedidos[i].observers) :
            a # b => ~ObservadorPedido_eq(pedidos[i].observers[a], pedidos[i].observers[b])

\* adicionar_observer of an observer equal to an attached one, and
\* remover_observer of one equal to none, leave the list as it was
SemEfeito ==
    (/\ ult'.op \in {"adicionar_observer", "remover_observer"}
     /\ (ult'.op = "adicionar_observer") =
            (\E k \in 1..Len(pedidos[ult'.alvo].observers) :
                ObservadorPedido_eq(pedidos[ult'.alvo].observers[k], ult'.arg)))
    => pedidos' = pedidos

\* C2 as stated: the observer list never holds two equal observers, attaching
\* an observer equal to an attached one and removing an absent one change
\* nothing, and every attached observer gets exactly one notification per
\* status write.
C2_UmaNotificacaoSempre ==
    /\ [](/\ SemDuplicatas
          /\ EscritaDeMembro =>
                \A k \in 1..Len(Alvo.observers) : Notificacoes(Alvo.observers[k]) = 1)
    /\ [][SemEfeito]_vars

\* C2 amended: the same, except that an attached observer gets at most one
\* notification per status write, and exactly one when the atualizar of no
\* observer attached before it raises.
C2_SemObservadoresIguais ==
    /\ [](/\ SemDuplicatas
          /\ EscritaDeMembro =>
                \A k \in 1..Len(Alvo.observers) :
                    /\ Notificacoes(Alvo.observers[k]) <= 1
                    /\ (\A j \in Falham : j >= k) =>
                          Notificacoes(Alvo.observers[k]) = 1)
    /\ [][SemEfeito]_vars

\* An instance of NotificadorCliente equal to the attached one has just been
\* attached again, after another observer
C2_Witness ==
    /\ ult.op = "adicionar_observer"
    /\ ult.res = "ok"
    /\ ult.arg.cls = "NotificadorCliente"
    /\ ult.arg.oid = 2
    /\ Len(Alvo.observers) = 2
    /\ Alvo.observers[1].oid = 1

\* Both calls of processar_pagamento that the order's state forbids raise
\* RuntimeError, hand nothing to the strategy and change nothing
PagamentoRecusado ==
    (/\ ult'.op = "processar_pagamento"
     /\ \/ pedidos[ult'.alvo].pagamento = None
        \/ pedidos[ult'.alvo].itens = <<>>)
    => /\ ult'.res = "RuntimeError"
       /\ ult'.pagar = <<>>
       /\ pedidos' = pedidos
       /\ rodada' = <<>>

\* C3: processar_pagamento raises RuntimeError when the order has no strategy,
\* and when it has a strategy and no item; the strategy's pagar is not called
\* and the order's items, status, observers and strategy stay as they were.
C3_PagamentoSemPreCondicao == [][PagamentoRecusado]_vars

C3_Witness ==
    /\ ult.op = "processar_pagamento"
    /\ ult.res = "RuntimeError"
    /\ Alvo.pagamento # None
    /\ Alvo.itens = <<>>
    /\ Alvo.observers # <<>>
    /\ Alvo.status = PRONTO

\* With a strategy and an item, processar_pagamento hands total() to the
\* strategy once, returns what pagar returned, changes nothing and notifies
\* nobody
PagamentoDelegado ==
    (/\ ult'.op = "processar_pagamento"
     /\ pedidos[ult'.alvo].pagamento # None
     /\ pedidos[ult'.alvo].itens # <<>>)
    => LET p == pedidos[ult'.alvo]
           r == pagar(p.pagamento, Pedido_total(p))
       IN  /\ ult'.res = "ok"
           /\ ult'.ret = r.ret
           /\ ult'.pagar = <<Pedido_total(p)>>
           /\ pedidos' = pedidos
           /\ rodada' = <<>>

\* The status of an order changes in status writes only
StatusSoPorEscrita ==
    \A i \in 1..Len(pedidos) :
        pedidos'[i].status # pedidos[i].status => ult'.op = "status" /\ ult'.alvo = i

\* C4: with a strategy and at least one item, processar_pagamento returns the
\* boolean that strategy.pagar(total()) returns and, true or false, leaves the
\* status, items, observers and strategy as they were and notifies no observer;
\* the status changes through status writes only.
C4_PagamentoSemEfeito == [][PagamentoDelegado /\ StatusSoPorEscrita]_vars

\* Cash that does not cover the total: pagar returned false
C4_Witness ==
    /\ ult.op = "processar_pagamento"
    /\ ult.res = "ok"
    /\ ult.ret = FALSE
    /\ ult.pagar = <<1100>>
    /\ Alvo.observers # <<>>
    /\ Alvo.status = PREPARANDO

\* The prices of the items of a list, added from the last to the first
RECURSIVE SomaAte(_, _)
SomaAte(itens, n) == IF n = 0 THEN 0 ELSE SomaAte(itens, n - 1) + preco(itens[n])

\* What each call does to total(): a new order starts at 0, adicionar_item of
\* a beverage adds its price, nothing else changes it
EfeitoNoTotal ==
    /\ (ult'.op = "Pedido" /\ ult'.res = "ok") =>
          Pedido_total(pedidos'[Len(pedidos')]) = 0
    /\ (ult'.op = "adicionar_item") => (ult'.res = "ok") = IsBebida(ult'.arg)
    /\ \A i \in 1..Len(pedidos) :
          Pedido_total(pedidos'[i]) =
              Pedido_total(pedidos[i])
              + IF ult'.op = "adicionar_item" /\ ult'.alvo = i /\ ult'.res = "ok"
                THEN preco(ult'.arg)
                ELSE 0

\* C6: total() is the sum of the prices of the items in the list, 0 for a new
\* order and never negative; adicionar_item of a beverage raises it by that
\* beverage's preco(), and no other call, a rejected adicionar_item included,
\* changes it.
C6_TotalSomaDosItens ==
    /\ [](\A i \in 1..Len(pedidos) :
            /\ Pedido_total(pedidos[i]) = SomaAte(pedidos[i].itens, Len(pedidos[i].itens))
            /\ Pedido_total(pedidos[i]) >= 0)
    /\ [][EfeitoNoTotal]_vars

\* The same beverage added twice
C6_Witness ==
    /\ ult.op = "adicionar_item"
    /\ ult.res = "ok"
    /\ Len(Alvo.itens) = 2
    /\ Alvo.itens[1] = Alvo.itens[2]
    /\ Pedido_total(Alvo) = 2200

\* A write of a value that is no member raises TypeError, changes nothing and
\* notifies nobody; a new order is RECEBIDO and its status changes only in a
\* write of a member, to that member
EfeitoNoStatus ==
    /\ (ult'.op = "status" /\ ~IsStatusPedido(ult'.arg)) =>
          /\ ult'.res = "TypeError"
          /\ pedidos' = pedidos
          /\ rodada' = <<>>
    /\ (ult'.op = "Pedido" /\ ult'.res = "ok") =>
          pedidos'[Len(pedidos')].status = RECEBIDO
    /\ \A i \in 1..Len(pedidos) :
          pedidos'[i].status # pedidos[i].status =>
              /\ ult'.op = "status"
              /\ ult'.alvo = i
              /\ ult'.arg \in Membros
              /\ pedidos'[i].status = ult'.arg

====
